---------------------------- MODULE Spec2Model ----------------------------
(***************************************************************************)
(* A model of static/app.js, the PC Monitor dashboard client (class        *)
(* PCMonitor): the WebSocket connection with its reconnect timer, the      *)
(* sliding chart series, and updateDashboard, which merges one telemetry   *)
(* frame into what the page shows.                                         *)
(*                                                                         *)
(* JavaScript runs every handler to completion, so each handler is one     *)
(* action.  The page's markup is not part of the source: every element     *)
(* the code looks up is taken to exist, and holds Markup until the code    *)
(* first writes it.                                                        *)
(***************************************************************************)
EXTENDS Integers, Sequences, FiniteSets, TLC

(***************************************************************************)
(* Bounds of the model.                                                    *)
(***************************************************************************)
\* Connections plus pending reconnect timers that may exist at once.
MaxConn == 2
\* Messages delivered in one behaviour.
MaxFrames == 2
\* The time one Tick lets pass, in ms.
TickMs == 1000

(***************************************************************************)
(* JavaScript values.  A value is a tuple that starts with its type, so    *)
(* that values of different types may be compared.                         *)
(***************************************************************************)
Undefined == <<"undefined">>
Null == <<"null">>
NaN == <<"NaN">>
Num(n) == <<"number", n>>
Str(s) == <<"string", s>>
Bool(b) == <<"boolean", b>>
Arr(seq) == <<"array", seq>>
Obj(f) == <<"object", f>>

\* The empty object {}: a function with no key.
NoKeys == [k \in {} |-> Undefined]

TypeOf(v) == v[1]
IsNullish(v) == TypeOf(v) \in {"undefined", "null"}

\* ToBoolean: what  if (v), v || d, v ? a : b  test.
Truthy(v) ==
    CASE TypeOf(v) = "undefined" -> FALSE
      [] TypeOf(v) = "null" -> FALSE
      [] TypeOf(v) = "NaN" -> FALSE
      [] TypeOf(v) = "number" -> v[2] # 0
      [] TypeOf(v) = "string" -> v[2] # ""
      [] TypeOf(v) = "boolean" -> v[2]
      [] OTHER -> TRUE

\* v || d
OrElse(v, d) == IF Truthy(v) THEN v ELSE d

\* o.k when o is neither null nor undefined (those throw a TypeError, which
\* the callers test with IsNullish before they read).
Get(o, k) ==
    IF TypeOf(o) = "object" /\ k \in DOMAIN o[2] THEN o[2][k] ELSE Undefined

\* arr.length and arr[i], for an array value.
Elems(a) == IF TypeOf(a) = "array" THEN a[2] ELSE <<>>

Min(a, b) == IF a <= b THEN a ELSE b

RECURSIVE Pow10(_)
Pow10(d) == IF d = 0 THEN 1 ELSE 10 * Pow10(d - 1)

RECURSIVE PadLeft(_, _)
PadLeft(s, d) == IF Len(s) >= d THEN s ELSE PadLeft("0" \o s, d)

\* (num / den).toFixed(d), den > 0: the nearest decimal with d digits, a tie
\* going to the larger magnitude; a negative number keeps its sign.
ToFixed(num, den, d) ==
    LET mag == IF num < 0 THEN 0 - num ELSE num
        scaled == (2 * mag * Pow10(d) + den) \div (2 * den)
        whole == ToString(scaled \div Pow10(d))
        frac == PadLeft(ToString(scaled % Pow10(d)), d)
    IN  (IF num < 0 THEN "-" ELSE "") \o whole
            \o (IF d = 0 THEN "" ELSE "." \o frac)

\* String(v), as a template literal `${v}` and textContent = v apply it.
ToStr(v) ==
    CASE TypeOf(v) = "undefined" -> "undefined"
      [] TypeOf(v) = "null" -> "null"
      [] TypeOf(v) = "NaN" -> "NaN"
      [] TypeOf(v) = "number" -> ToString(v[2])
      [] TypeOf(v) = "string" -> v[2]
      [] TypeOf(v) = "boolean" -> IF v[2] THEN "true" ELSE "false"
      [] OTHER -> "[object]"

(***************************************************************************)
(* The wire format: a message is JSON text, here the sequence of its       *)
(* tokens.  JSONStringify is the producer's side, JSONParse the client's   *)
(* JSON.parse, which fails on text that is not well formed.                 *)
(***************************************************************************)
P(c) == <<"punct", c>>

RECURSIVE JSONStringify(_), StringifyMembers(_, _), StringifyElements(_)
StringifyMembers(f, keys) ==
    IF keys = {} THEN <<>>
    ELSE LET k == CHOOSE x \in keys : TRUE
             rest == keys \ {k}
         IN  <<Str(k), P(":")>> \o JSONStringify(f[k])
                \o (IF rest = {} THEN <<>> ELSE <<P(",")>>)
                \o StringifyMembers(f, rest)
StringifyElements(seq) ==
    IF seq = <<>> THEN <<>>
    ELSE JSONStringify(Head(seq))
            \o (IF Len(seq) = 1 THEN <<>> ELSE <<P(",")>>)
            \o StringifyElements(Tail(seq))
JSONStringify(v) ==
    CASE TypeOf(v) = "object" ->
            <<P("{")>> \o StringifyMembers(v[2], DOMAIN v[2]) \o <<P("}")>>
      [] TypeOf(v) = "array" ->
            <<P("[")>> \o StringifyElements(v[2]) \o <<P("]")>>
      [] OTHER -> <<v>>

\* A parse result: the value read and the tokens after it, or a failure.
ParseFail == [ok |-> FALSE, val |-> Undefined, rest |-> <<>>]
ParseOk(v, rest) == [ok |-> TRUE, val |-> v, rest |-> rest]
IsLiteral(t) == TypeOf(t) \in {"null", "number", "string", "boolean"}

RECURSIVE ParseValue(_), ParseMembers(_, _), ParseElements(_, _)
\* After "{" or ",": a member  "key" : value, then "," or "}".
ParseMembers(toks, acc) ==
    IF Len(toks) < 2 \/ TypeOf(toks[1]) # "string" \/ toks[2] # P(":")
    THEN ParseFail
    ELSE LET r == ParseValue(SubSeq(toks, 3, Len(toks)))
         IN  IF ~r.ok \/ r.rest = <<>> THEN ParseFail
             ELSE LET f == (toks[1][2] :> r.val) @@ acc
                  IN  IF Head(r.rest) = P("}")
                      THEN ParseOk(Obj(f), Tail(r.rest))
                      ELSE IF Head(r.rest) = P(",")
                      THEN ParseMembers(Tail(r.rest), f)
                      ELSE ParseFail
\* After "[" or ",": an element, then "," or "]".
ParseElements(toks, acc) ==
    LET r == ParseValue(toks)
    IN  IF ~r.ok \/ r.rest = <<>> THEN ParseFail
        ELSE IF Head(r.rest) = P("]")
        THEN ParseOk(Arr(Append(acc, r.val)), Tail(r.rest))
        ELSE IF Head(r.rest) = P(",")
        THEN ParseElements(Tail(r.rest), Append(acc, r.val))
        ELSE ParseFail
ParseValue(toks) ==
    IF toks = <<>> THEN ParseFail
    ELSE IF IsLiteral(Head(toks)) THEN ParseOk(Head(toks), Tail(toks))
    ELSE IF Head(toks) = P("{")
    THEN IF Len(toks) >= 2 /\ toks[2] = P("}")
         THEN ParseOk(Obj(NoKeys), SubSeq(toks, 3, Len(toks)))
         ELSE ParseMembers(Tail(toks), NoKeys)
    ELSE IF Head(toks) = P("[")
    THEN IF Len(toks) >= 2 /\ toks[2] = P("]")
         THEN ParseOk(Arr(<<>>), SubSeq(toks, 3, Len(toks)))
         ELSE ParseElements(Tail(toks), <<>>)
    ELSE ParseFail

\* JSON.parse(text): the value, or a SyntaxError when the text is not one
\* well-formed value with nothing after it.
JSONParse(toks) ==
    LET r == ParseValue(toks)
    IN  IF r.ok /\ r.rest = <<>> THEN [ok |-> TRUE, val |-> r.val]
        ELSE [ok |-> FALSE, val |-> Undefined]

(***************************************************************************)
(* The page: the elements the code writes, and the charts.                 *)
(***************************************************************************)
\* What an element holds before the code first writes it.
Markup == "(markup)"

CpuText == {"cpu-name", "cpu-usage", "cpu-freq", "cpu-cores", "cpu-threads",
            "cpu-temp", "cpu-l2", "cpu-l3"}
GpuText == {"gpu-name", "gpu-usage", "gpu-temp", "gpu-vram", "gpu-clock",
            "gpu-mem-clock", "gpu-fan", "gpu-power"}
MemoryText == {"mem-pct", "mem-used-total", "mem-speed", "mem-type",
               "mem-slots", "memory-gauge-text"}
NetworkText == {"net-down", "net-up"}
PingText == {"ping-value"}
DiskText == {"disk-read", "disk-write"}
SystemText == {"sys-uptime", "sys-mb-model"}
StatusText == {"status-text"}
TextIds == CpuText \cup GpuText \cup MemoryText \cup NetworkText
              \cup PingText \cup DiskText \cup SystemText \cup StatusText

\* Containers whose innerHTML the code rebuilds.
ListIds == {"cpu-core-bars", "fans-list", "process-list", "sys-drives"}
\* Gauges (the stroke of their .gauge-fill) and the progress bar (its width).
GaugeIds == {"gpu-usage-gauge", "gpu-temp-gauge", "memory-gauge"}
StyleIds == GaugeIds \cup {"gpu-vram-bar"}
SingleCharts == {"cpu-chart", "gpu-chart", "memory-chart"}
DualCharts == {"network-chart", "disk-chart"}
ChartIds == SingleCharts \cup DualCharts

\* Array(60).fill(null): the length of every series.
HistoryLength == 60
\* The radius of a large-gauge and of a mini-gauge.
LargeRadius == 42
MiniRadius == 20
\* The gauge's default maxValue.
GaugeMax == 100
\* The process list shows this many entries.
MaxProcesses == 8
\* The reconnect delay, in ms.
ReconnectDelay == 2000

NullSeries == [i \in 1..HistoryLength |-> Null]
\* The series start with no call behind any of their entries.
NoCalls == [i \in 1..HistoryLength |-> 0]

\* createChart: one dataset of 60 nulls.  `drawn` is what the chart library
\* last rendered (the constructor draws, and so does chart.update); `calls`
\* records for every entry the update call that pushed it (0: none).
createChart ==
    [data |-> <<NullSeries>>, drawn |-> <<NullSeries>>, calls |-> <<NoCalls>>]

\* createDualChart: two datasets of 60 nulls.
createDualChart ==
    [data |-> <<NullSeries, NullSeries>>,
     drawn |-> <<NullSeries, NullSeries>>,
     calls |-> <<NoCalls, NoCalls>>]

\* setupCharts: the five charts.
setupCharts ==
    [c \in ChartIds |-> IF c \in SingleCharts THEN createChart
                        ELSE createDualChart]

\* A gauge or bar the code has not styled yet.
NoStyle == [markup |-> TRUE]

\* The view the handlers work on, as one record: text[id] is an element's
\* textContent, html[id] a container's children, style[id] what the code set
\* on a gauge or bar, gaugeClass[id] the gauge's size class (from the markup),
\* updates the number of chart updates made so far.
InitialView(classes) ==
    [text |-> [id \in TextIds |-> Markup],
     html |-> [id \in ListIds |-> <<>>],
     style |-> [id \in StyleIds |-> NoStyle],
     gaugeClass |-> classes,
     charts |-> setupCharts,
     totalMemoryGB |-> Num(0),
     updates |-> 0]

\* setText(id, text): textContent = text, which makes a string of it.
setText(vm, id, v) == [vm EXCEPT !.text[id] = ToStr(v)]

\* data.push(value): the value goes to the tail.
Push(data, value) == Append(data, value)
\* A shift that was forgotten: the series keeps growing.
ShiftForgotten(data) == data

\* data.shift(): the head leaves.
Shift(data) == Tail(data)

\* An updateChart that pushes and shifts the value twice.
updateChartTwice(vm, id, value) ==
    LET chart == vm.charts[id]
        n == vm.updates + 1
        data == <<Shift(Push(Shift(Push(chart.data[1], value)), value))>>
        calls == <<Shift(Push(Shift(Push(chart.calls[1], n)), n))>>
    IN  [vm EXCEPT !.updates = n,
                   !.charts[id] =
                      [data |-> data, drawn |-> data, calls |-> calls]]

\* updateChart(chartId, value): push, shift, chart.update('none').
updateChart(vm, id, value) ==
    LET chart == vm.charts[id]
        n == vm.updates + 1
        data == <<Shift(Push(chart.data[1], value))>>
        calls == <<Shift(Push(chart.calls[1], n))>>
    IN  [vm EXCEPT !.updates = n,
                   !.charts[id] =
                      [data |-> data, drawn |-> data, calls |-> calls]]

\* A dual update that pushes both values into the first dataset.
updateDualChartFirstTwice(vm, id, value1, value2) ==
    LET chart == vm.charts[id]
        n == vm.updates + 1
        data == <<Shift(Push(Shift(Push(chart.data[1], value1)), value2)),
                  chart.data[2]>>
        calls == <<Shift(Push(Shift(Push(chart.calls[1], n)), n)),
                   chart.calls[2]>>
    IN  [vm EXCEPT !.updates = n,
                   !.charts[id] =
                      [data |-> data, drawn |-> data, calls |-> calls]]

\* updateDualChart(chartId, value1, value2): both datasets are pushed and
\* shifted before the one chart.update('none').
updateDualChart(vm, id, value1, value2) ==
    LET chart == vm.charts[id]
        n == vm.updates + 1
        data == <<Shift(Push(chart.data[1], value1)),
                  Shift(Push(chart.data[2], value2))>>
        calls == <<Shift(Push(chart.calls[1], n)),
                   Shift(Push(chart.calls[2], n))>>
    IN  [vm EXCEPT !.updates = n,
                   !.charts[id] =
                      [data |-> data, drawn |-> data, calls |-> calls]]

\* 2 * Math.PI * radius, in thousandths.
Circumference(radius) == (2 * 3141593 * radius) \div 1000

\* updateMiniGauge(gaugeId, value, maxValue): percentage is
\* Math.min(value / maxValue, 1), and the stroke is set from it (in
\* thousandths).  value is a number of the frame.
updateMiniGauge(vm, id, value, maxValue) ==
    LET radius == IF vm.gaugeClass[id] = "large-gauge" THEN LargeRadius
                  ELSE MiniRadius
        circumference == Circumference(radius)
        \* circumference * (1 - percentage), percentage at most 1
        offset == (circumference * (maxValue - Min(value[2], maxValue)))
                      \div maxValue
    IN  [vm EXCEPT !.style[id] =
            [strokeDasharray |-> circumference, strokeDashoffset |-> offset]]

\* updateProgressBar(id, percent): width = `${Math.min(percent, 100)}%`.
updateProgressBar(vm, id, percent) ==
    [vm EXCEPT !.style[id] = [width |-> ToString(Min(percent[2], 100)) \o "%"]]

\* updateCoreBars(perCore): nothing for an empty list; otherwise one bar per
\* core (rebuilt when the count changed), each with its height.
updateCoreBars(vm, perCore) ==
    IF Len(perCore) = 0 THEN vm
    ELSE [vm EXCEPT !.html["cpu-core-bars"] =
            [i \in 1..Len(perCore) |->
                [label |-> "C" \o ToString(i),
                 height |-> ToString(Min(perCore[i][2], 100)) \o "%"]]]

(***************************************************************************)
(* updateDashboard(data), category by category.  A frame's numbers are     *)
(* integers here, and its fields hold values of the type the code expects, *)
(* null, or are absent.                                                     *)
(***************************************************************************)
\* v || 0, for a number field.
NumOr0(v) == OrElse(v, Num(0))

\* x?.toFixed(d) || 0: the digits of a number, "0" for null or undefined.
FixedOr0(v, d) == IF IsNullish(v) THEN "0" ELSE ToFixed(v[2], 1, d)

\* if (data.cpu) { ... }
CpuStep(vm, data) ==
    LET cpu == Get(data, "cpu")
        cpuUsage == NumOr0(Get(cpu, "usage"))
        cpuTemp == Get(cpu, "temperature")
        freq == Get(cpu, "frequency")
        l2 == Get(cpu, "l2_cache_kb")
        l3 == Get(cpu, "l3_cache_kb")
        v1 == setText(vm, "cpu-name", OrElse(Get(cpu, "name"), Str("CPU")))
        v2 == setText(v1, "cpu-usage", Str(ToFixed(cpuUsage[2], 1, 0) \o "%"))
        v3 == setText(v2, "cpu-freq",
                 IF Truthy(freq) THEN Str(ToFixed(freq[2], 1000, 1) \o " GHz")
                 ELSE Str("--"))
        v4 == setText(v3, "cpu-cores", OrElse(Get(cpu, "cores"), Str("--")))
        v5 == setText(v4, "cpu-threads", OrElse(Get(cpu, "threads"), Str("--")))
        v6 == setText(v5, "cpu-temp",
                 IF Truthy(cpuTemp) THEN Str(ToFixed(cpuTemp[2], 1, 0) \o "°C")
                 ELSE Str("N/A"))
        v7 == IF Truthy(l2)
              THEN setText(v6, "cpu-l2", Str(ToFixed(l2[2], 1024, 1) \o " MB"))
              ELSE v6
        v8 == IF Truthy(l3)
              THEN setText(v7, "cpu-l3", Str(ToFixed(l3[2], 1024, 0) \o " MB"))
              ELSE v7
        v9 == updateCoreBars(v8, Elems(OrElse(Get(cpu, "per_core"), Arr(<<>>))))
    IN  IF Truthy(cpu) THEN updateChart(v9, "cpu-chart", cpuUsage) ELSE vm

\* if (data.gpu && data.gpu.available) { ... }
GpuStep(vm, data) ==
    LET gpu == Get(data, "gpu")
        usage == NumOr0(Get(gpu, "usage"))
        temp == Get(gpu, "temperature")
        gclock == Get(gpu, "graphics_clock")
        mclock == Get(gpu, "memory_clock")
        fan == Get(gpu, "fan_speed")
        power == Get(gpu, "power")
        limit == Get(gpu, "power_limit")
        v1 == setText(vm, "gpu-name", OrElse(Get(gpu, "name"), Str("GPU")))
        v2 == setText(v1, "gpu-usage", Str(ToFixed(usage[2], 1, 0) \o "%"))
        v3 == setText(v2, "gpu-temp",
                 IF Truthy(temp) THEN Str(ToStr(temp) \o "°C") ELSE Str("N/A"))
        v4 == setText(v3, "gpu-vram",
                 Str(FixedOr0(Get(gpu, "memory_used"), 1) \o "/"
                     \o FixedOr0(Get(gpu, "memory_total"), 0) \o " GB"))
        v5 == setText(v4, "gpu-clock",
                 IF Truthy(gclock) THEN Str(ToStr(gclock) \o " MHz")
                 ELSE Str("--"))
        v6 == setText(v5, "gpu-mem-clock",
                 IF Truthy(mclock) THEN Str(ToStr(mclock) \o " MHz")
                 ELSE Str("--"))
        \* fan_speed !== null: undefined passes
        v7 == setText(v6, "gpu-fan",
                 IF fan # Null THEN Str(ToStr(fan) \o "%") ELSE Str("--"))
        v8 == setText(v7, "gpu-power",
                 IF Truthy(power)
                 THEN Str(ToFixed(power[2], 1, 0) \o "/"
                          \o (IF IsNullish(limit) THEN "--"
                              ELSE ToFixed(limit[2], 1, 0)) \o " W")
                 ELSE Str("--"))
        v9 == updateMiniGauge(v8, "gpu-usage-gauge", usage, GaugeMax)
        v10 == updateMiniGauge(v9, "gpu-temp-gauge", NumOr0(temp), GaugeMax)
        v11 == updateProgressBar(v10, "gpu-vram-bar",
                                 NumOr0(Get(gpu, "memory_percent")))
    IN  IF Truthy(gpu) /\ Truthy(Get(gpu, "available"))
        THEN updateChart(v11, "gpu-chart", usage)
        ELSE vm

\* Math.min(x, 4) of a field: NaN for undefined, null counts as 0.
MinWith4(v) ==
    CASE TypeOf(v) = "undefined" -> NaN
      [] TypeOf(v) = "null" -> Num(0)
      [] OTHER -> Num(Min(v[2], 4))

\* if (data.memory) { ... }
MemoryStep(vm, data) ==
    LET memory == Get(data, "memory")
        memPct == NumOr0(Get(memory, "percent"))
        total == Get(memory, "total")
        speed == Get(memory, "speed")
        slotsUsed == Get(memory, "slots_used")
        v0 == [vm EXCEPT !.totalMemoryGB = NumOr0(total)]
        v1 == setText(v0, "mem-pct", Str(ToFixed(memPct[2], 1, 0) \o "%"))
        v2 == setText(v1, "mem-used-total",
                 Str(FixedOr0(Get(memory, "used"), 1) \o " / "
                     \o FixedOr0(total, 0) \o " GB"))
        v3 == setText(v2, "mem-speed",
                 IF Truthy(speed) THEN Str(ToStr(speed) \o " MHz")
                 ELSE Str("--"))
        v4 == setText(v3, "mem-type", OrElse(Get(memory, "type"), Str("--")))
        \* slots_used !== undefined: null passes
        v5 == setText(v4, "mem-slots",
                 IF slotsUsed # Undefined
                 THEN Str(ToStr(slotsUsed) \o "/"
                          \o ToStr(MinWith4(Get(memory, "slots_total"))))
                 ELSE Str("--"))
        v6 == updateMiniGauge(v5, "memory-gauge", memPct, GaugeMax)
        v7 == setText(v6, "memory-gauge-text",
                      Str(ToFixed(memPct[2], 1, 0) \o "%"))
    IN  IF Truthy(memory) THEN updateChart(v7, "memory-chart", memPct) ELSE vm

\* if (data.network) { ... }
NetworkStep(vm, data) ==
    LET network == Get(data, "network")
        download == NumOr0(Get(network, "download_rate"))
        upload == NumOr0(Get(network, "upload_rate"))
        v1 == setText(vm, "net-down", Str(ToFixed(download[2], 1, 2) \o " MB/s"))
        v2 == setText(v1, "net-up", Str(ToFixed(upload[2], 1, 2) \o " MB/s"))
    IN  IF Truthy(network)
        THEN updateDualChart(v2, "network-chart", download, upload)
        ELSE vm

\* A ping step without its  if (data.ping)  guard, reading with ?. instead.
PingStepUnguarded(vm, data) ==
    LET ping == Get(data, "ping")
        value == Get(ping, "ping")
    IN  IF Truthy(Get(ping, "success")) /\ value # Null
        THEN setText(vm, "ping-value", Str(ToStr(value) \o " ms"))
        ELSE setText(vm, "ping-value", Str("--"))

\* if (data.ping) { ... }
PingStep(vm, data) ==
    LET ping == Get(data, "ping")
        value == Get(ping, "ping")
    IN  IF ~Truthy(ping) THEN vm
        ELSE IF Truthy(Get(ping, "success")) /\ value # Null
        THEN setText(vm, "ping-value", Str(ToStr(value) \o " ms"))
        ELSE setText(vm, "ping-value", Str("--"))

\* if (data.disk) { ... }
DiskStep(vm, data) ==
    LET disk == Get(data, "disk")
        readRate == NumOr0(Get(disk, "read_rate"))
        writeRate == NumOr0(Get(disk, "write_rate"))
        v1 == setText(vm, "disk-read", Str(ToFixed(readRate[2], 1, 2) \o " MB/s"))
        v2 == setText(v1, "disk-write",
                      Str(ToFixed(writeRate[2], 1, 2) \o " MB/s"))
    IN  IF Truthy(disk)
        THEN updateDualChart(v2, "disk-chart", readRate, writeRate)
        ELSE vm

\* The notice updateFansList shows for an empty fan list.
NoFans == <<[notice |-> "No fan data available."]>>

\* One fan of updateFansList: its name, bar width and speed spans.
FanItem(fan) ==
    LET percent == Get(fan, "percent")   \* !== null ? ... : null
        rpm == Get(fan, "rpm")
        speedDisplay ==
            IF percent # Null
            THEN <<[class |-> "fan-percent", text |-> ToStr(percent) \o "%"]>>
                 \o (IF rpm # Null
                     THEN <<[class |-> "fan-rpm", text |-> ToStr(rpm) \o " RPM"]>>
                     ELSE <<>>)
            ELSE IF rpm # Null
            THEN <<[class |-> "fan-percent", text |-> ToStr(rpm) \o " RPM"]>>
            ELSE <<[class |-> "fan-percent", text |-> "--"]>>
        barWidth == IF percent # Null THEN percent ELSE Num(0)
    IN  [name |-> ToStr(Get(fan, "name")),
         width |-> ToStr(barWidth) \o "%",
         speed |-> speedDisplay]

\* updateFansList(fanData)
updateFansList(vm, fanData) ==
    LET fans == Elems(OrElse(Get(fanData, "fans"), Arr(<<>>)))
    IN  IF Len(fans) = 0 THEN [vm EXCEPT !.html["fans-list"] = NoFans]
        ELSE [vm EXCEPT !.html["fans-list"] =
                [i \in 1..Len(fans) |-> FanItem(fans[i])]]

\* if (data.fans) { ... }
FansStep(vm, data) ==
    LET fans == Get(data, "fans")
    IN  IF Truthy(fans) THEN updateFansList(vm, fans) ELSE vm

IdleProcess == "System Idle Process"

\* processes.filter(p => p.name !== 'System Idle Process').slice(0, 8)
FilterProcesses(processes) ==
    LET kept == SelectSeq(processes,
                          LAMBDA p : Get(p, "name") # Str(IdleProcess))
    IN  SubSeq(kept, 1, Min(MaxProcesses, Len(kept)))

\* A memory string that never changes to GB.
MemoryStrAlwaysMB(memoryPercent, totalMemoryGB) ==
    CASE TypeOf(memoryPercent) = "undefined" -> "NaN MB"
      [] TypeOf(memoryPercent) = "null" -> "0 MB"
      [] OTHER ->
            ToFixed(memoryPercent[2] * totalMemoryGB[2] * 1024, 100, 0) \o " MB"

\* The memory string of a process: memoryMB is
\* (memory_percent / 100) * totalMemoryGB * 1024, shown in GB from 1024 MB on.
MemoryStr(memoryPercent, totalMemoryGB) ==
    CASE TypeOf(memoryPercent) = "undefined" -> "NaN MB"
      [] TypeOf(memoryPercent) = "null" -> "0 MB"
      [] OTHER ->
            LET prod == memoryPercent[2] * totalMemoryGB[2]
            IN  IF prod * 1024 >= 1024 * 100
                THEN ToFixed(prod, 100, 1) \o " GB"
                ELSE ToFixed(prod * 1024, 100, 0) \o " MB"

\* One process of updateProcessList.
ProcessItem(p, totalMemoryGB) ==
    [name |-> ToStr(Get(p, "name")),
     cpu |-> ToFixed(Get(p, "cpu_percent")[2], 1, 1) \o "%",
     memory |-> MemoryStr(Get(p, "memory_percent"), totalMemoryGB)]

\* p.cpu_percent.toFixed(1) throws a TypeError when cpu_percent is null or
\* undefined: the map stops and innerHTML is not assigned.
ProcessListThrows(processes) ==
    \E i \in 1..Len(FilterProcesses(processes)) :
        IsNullish(Get(FilterProcesses(processes)[i], "cpu_percent"))

\* updateProcessList(processes), when it does not throw.
updateProcessList(vm, processes) ==
    LET filtered == FilterProcesses(processes)
    IN  [vm EXCEPT !.html["process-list"] =
            [i \in 1..Len(filtered) |-> ProcessItem(filtered[i], vm.totalMemoryGB)]]

\* The size string of a drive.
SizeStr(size) ==
    CASE TypeOf(size) = "undefined" -> "NaN GB"
      [] TypeOf(size) = "null" -> "0 GB"
      [] OTHER -> IF size[2] >= 1000 THEN ToFixed(size[2], 1000, 1) \o " TB"
                  ELSE ToString(size[2]) \o " GB"

\* One drive of updateSystemInfo; a model name over 20 characters is cut to
\* 17 and "...".
DriveItem(drive) ==
    LET model == OrElse(Get(drive, "model"), Str("Unknown"))[2]
    IN  [title |-> ToStr(Get(drive, "model")),
         model |-> IF Len(model) > 20 THEN SubSeq(model, 1, 17) \o "..."
                   ELSE model,
         type |-> ToStr(Get(drive, "type")),
         size |-> SizeStr(Get(drive, "size_gb"))]

\* An updateSystemInfo that does not look at system.available.
updateSystemInfoUngated(vm, system) ==
    LET uptime == Get(system, "uptime")
        motherboard == Get(system, "motherboard")
        drives == Elems(Get(system, "drives"))
        v1 == IF Truthy(uptime) THEN setText(vm, "sys-uptime", uptime) ELSE vm
        v2 == IF Truthy(motherboard)
              THEN setText(v1, "sys-mb-model",
                           OrElse(Get(motherboard, "product"), Str("--")))
              ELSE v1
    IN  IF Len(drives) > 0
        THEN [v2 EXCEPT !.html["sys-drives"] =
                [i \in 1..Len(drives) |-> DriveItem(drives[i])]]
        ELSE v2

\* updateSystemInfo(system)
updateSystemInfo(vm, system) ==
    LET uptime == Get(system, "uptime")
        motherboard == Get(system, "motherboard")
        drives == Elems(Get(system, "drives"))
        v1 == IF Truthy(uptime) THEN setText(vm, "sys-uptime", uptime) ELSE vm
        v2 == IF Truthy(motherboard)
              THEN setText(v1, "sys-mb-model",
                           OrElse(Get(motherboard, "product"), Str("--")))
              ELSE v1
        v3 == IF Len(drives) > 0
              THEN [v2 EXCEPT !.html["sys-drives"] =
                      [i \in 1..Len(drives) |-> DriveItem(drives[i])]]
              ELSE v2
    IN  IF ~Truthy(Get(system, "available")) THEN vm ELSE v3

\* if (data.system) { ... }
SystemStep(vm, data) ==
    LET system == Get(data, "system")
    IN  IF Truthy(system) THEN updateSystemInfo(vm, system) ELSE vm

\* The end of updateDashboard, from the process list on: a throwing process
\* list leaves the list as it was and the system category undone.
ProcessesAndSystem(vm, data) ==
    IF ~Truthy(Get(data, "processes"))
    THEN [vm |-> SystemStep(vm, data), threw |-> FALSE]
    ELSE IF ProcessListThrows(Elems(Get(data, "processes")))
    THEN [vm |-> vm, threw |-> TRUE]
    ELSE [vm |-> SystemStep(
                    updateProcessList(vm, Elems(Get(data, "processes"))), data),
          threw |-> FALSE]

\* updateDashboard(data): the categories in the code's order.  The result is
\* the view as the call leaves it and whether the call threw: reading
\* data.cpu of null throws before anything is written.
updateDashboard(vm, data) ==
    IF IsNullish(data) THEN [vm |-> vm, threw |-> TRUE]
    ELSE ProcessesAndSystem(
            FansStep(DiskStep(PingStep(NetworkStep(MemoryStep(
                GpuStep(CpuStep(vm, data), data), data), data), data), data),
                data),
            data)

\* A handler without try and catch: what is thrown leaves the handler.
NotCaught(done) == [vm |-> done.vm, logged |-> "", uncaught |-> done.threw]

\* catch (e) { console.error('Failed to parse message:', e) } around what the
\* try block did: `logged` is what the catch wrote ("" when nothing was
\* thrown), and nothing is thrown on.
Caught(done) ==
    [vm |-> done.vm,
     logged |-> IF done.threw THEN "Failed to parse message:" ELSE "",
     uncaught |-> FALSE]

\* The try block: JSON.parse(event.data), then updateDashboard(data).
TryUpdate(vm, parsed) ==
    IF parsed.ok THEN updateDashboard(vm, parsed.val)
    ELSE [vm |-> vm, threw |-> TRUE]

\* The body of ws.onmessage.
onmessage(vm, message) == Caught(TryUpdate(vm, JSONParse(message)))

(***************************************************************************)
(* The frames the producer sends in this model: for every category a full  *)
(* payload, payloads with fields absent or null, and frames of several     *)
(* categories.                                                              *)
(***************************************************************************)
Categories == {"cpu", "gpu", "memory", "network", "ping", "disk", "fans",
               "processes", "system"}

\* The object o with every field null.
AllNull(o) == Obj([k \in DOMAIN o[2] |-> Null])

CpuFull ==
    Obj([name |-> Str("Ryzen 7"), usage |-> Num(37), frequency |-> Num(3600),
         cores |-> Num(8), threads |-> Num(16), temperature |-> Num(61),
         l2_cache_kb |-> Num(4096), l3_cache_kb |-> Num(32768),
         per_core |-> Arr(<<Num(20), Num(100), Num(140)>>)])
CpuPayloads ==
    {CpuFull, Obj([usage |-> Num(42)]), AllNull(CpuFull), Obj(NoKeys)}

GpuFull ==
    Obj([available |-> Bool(TRUE), name |-> Str("RTX"), usage |-> Num(73),
         temperature |-> Num(66), memory_used |-> Num(4), memory_total |-> Num(8),
         memory_percent |-> Num(50), graphics_clock |-> Num(1800),
         memory_clock |-> Num(7000), fan_speed |-> Num(45), power |-> Num(120),
         power_limit |-> Num(200)])
GpuPayloads ==
    {GpuFull,
     Obj([available |-> Bool(FALSE), name |-> Str("RTX"), usage |-> Num(12)]),
     Obj([available |-> Bool(TRUE)]),
     Obj(("available" :> Bool(TRUE)) @@ AllNull(GpuFull)[2]),
     \* no available flag at all
     Obj([name |-> Str("RTX"), usage |-> Num(99)]),
     \* a load above 100 and a temperature below zero
     Obj([available |-> Bool(TRUE), usage |-> Num(150), temperature |-> Num(-5)])}

MemoryFull ==
    Obj([percent |-> Num(48), used |-> Num(8), total |-> Num(16),
         speed |-> Num(3200), type |-> Str("DDR4"), slots_used |-> Num(2),
         slots_total |-> Num(4)])
MemoryPayloads ==
    {MemoryFull,
     Obj([percent |-> Num(30), used |-> Num(10), total |-> Num(32)]),
     Obj([percent |-> Num(55)]),
     AllNull(MemoryFull)}

NetworkFull == Obj([download_rate |-> Num(12), upload_rate |-> Num(3)])
NetworkPayloads ==
    {NetworkFull,
     Obj([download_rate |-> Num(7)]),
     Obj([download_rate |-> Null, upload_rate |-> Null])}

PingFull == Obj([success |-> Bool(TRUE), ping |-> Num(23)])
PingPayloads ==
    {PingFull,
     Obj([success |-> Bool(FALSE), ping |-> Null]),
     Obj([success |-> Bool(TRUE), ping |-> Null]),
     Obj([success |-> Bool(TRUE)])}

DiskFull == Obj([read_rate |-> Num(150), write_rate |-> Num(80)])
DiskPayloads ==
    {DiskFull,
     Obj([write_rate |-> Num(5)]),
     Obj(NoKeys)}

FansFull ==
    Obj([fans |-> Arr(<<Obj([name |-> Str("CPU Fan"), percent |-> Num(40),
                             rpm |-> Num(1200)]),
                        Obj([name |-> Str("Pump"), percent |-> Null,
                             rpm |-> Num(2500)])>>)])
FansPayloads ==
    {FansFull,
     Obj([fans |-> Arr(<<Obj([name |-> Str("Case"), percent |-> Null,
                              rpm |-> Null])>>)]),
     Obj([fans |-> Arr(<<Obj([name |-> Str("GPU Fan")])>>)]),
     Obj([fans |-> Arr(<<>>)]),
     Obj(NoKeys)}

Proc(name, cpu, mem) ==
    Obj([name |-> Str(name), cpu_percent |-> Num(cpu), memory_percent |-> Num(mem)])
ProcessesFull ==
    Arr(<<Proc(IdleProcess, 90, 0), Proc("chrome", 12, 50), Proc("code", 3, 2)>>)
ProcessesPayloads ==
    {ProcessesFull,
     Arr(<<Proc("node", 1, 1)>>),
     Arr(<<>>),
     Arr(<<Obj([name |-> Str("init"), cpu_percent |-> Num(2)]),
           Obj([name |-> Str("idle"), cpu_percent |-> Num(0),
                memory_percent |-> Null])>>),
     Arr(<<Obj([name |-> Str("ghost"), memory_percent |-> Num(1)])>>),
     Arr(<<Proc("sshd", 1, 1),
           Obj([name |-> Str("zombie"), cpu_percent |-> Null,
                memory_percent |-> Num(1)])>>)}

Drive(model, type, size) ==
    Obj([model |-> Str(model), type |-> Str(type), size_gb |-> Num(size)])
SystemFull ==
    Obj([available |-> Bool(TRUE), uptime |-> Str("3d 4h"),
         motherboard |-> Obj([product |-> Str("B550")]),
         drives |-> Arr(<<Drive("Samsung SSD 980 PRO 1TB NVMe", "SSD", 1500),
                         Drive("WD Blue", "HDD", 500)>>)])
SystemPayloads ==
    {SystemFull,
     Obj([available |-> Bool(TRUE), uptime |-> Str("5m"),
          motherboard |-> Obj(NoKeys),
          drives |-> Arr(<<Obj([type |-> Str("SSD")])>>)]),
     Obj([available |-> Bool(TRUE), uptime |-> Str("6m"), drives |-> Arr(<<>>)]),
     Obj([available |-> Bool(FALSE), uptime |-> Str("9d"),
          motherboard |-> Obj([product |-> Str("X570")]),
          drives |-> Arr(<<Drive("Crucial", "SSD", 250)>>)])}

Payloads ==
    [cpu |-> CpuPayloads, gpu |-> GpuPayloads, memory |-> MemoryPayloads,
     network |-> NetworkPayloads, ping |-> PingPayloads, disk |-> DiskPayloads,
     fans |-> FansPayloads, processes |-> ProcessesPayloads,
     system |-> SystemPayloads]

\* A frame of one category.
SingleFrames == UNION {{Obj(c :> p) : p \in Payloads[c]} : c \in Categories}

\* Frames of every category: with the full payloads, and with a process that
\* has no cpu_percent before a system category.
FullFrame ==
    Obj([cpu |-> CpuFull, gpu |-> GpuFull, memory |-> MemoryFull,
         network |-> NetworkFull, ping |-> PingFull, disk |-> DiskFull,
         fans |-> FansFull, processes |-> ProcessesFull, system |-> SystemFull])
BrokenProcessFrame ==
    Obj([memory |-> MemoryFull,
         processes |-> Arr(<<Obj([name |-> Str("ghost"),
                                  memory_percent |-> Num(1)])>>),
         system |-> Obj([available |-> Bool(TRUE), uptime |-> Str("1h"),
                         drives |-> Arr(<<Drive("Kingston", "SSD", 480)>>)])])
\* A frame whose gpu and system are both reported as not available.
UnavailableFrame ==
    Obj([gpu |-> Obj([available |-> Bool(FALSE), name |-> Str("RTX"),
                      usage |-> Num(12)]),
         system |-> Obj([available |-> Bool(FALSE), uptime |-> Str("9d"),
                         motherboard |-> Obj([product |-> Str("X570")]),
                         drives |-> Arr(<<Drive("Crucial", "SSD", 250)>>)])])
Frames ==
    SingleFrames \cup {FullFrame, BrokenProcessFrame, UnavailableFrame, Obj(NoKeys)}

\* Well-formed JSON text that is no frame object.
NotAFrame == {<<Null>>, <<Num(42)>>, <<Str("ping")>>, <<P("["), P("]")>>}

\* Text that is not well-formed JSON: empty, cut short, trailing text, a
\* bare word.
Malformed ==
    {<<>>,
     <<P("{"), Str("cpu"), P(":")>>,
     <<P("{"), P("}"), P("}")>>,
     <<P("{"), Str("cpu"), P(":"), P("{"), Str("usage"), P(":"), Num(42), P("}")>>,
     <<<<"word", "hello">>>>}

\* Every message of the model, and the few the connection model delivers.
Messages == {JSONStringify(f) : f \in Frames} \cup NotAFrame \cup Malformed
SampleMessages ==
    {JSONStringify(Obj([cpu |-> Obj([usage |-> Num(42)])])),
     <<P("{"), Str("cpu"), P(":")>>,
     <<Null>>}

(***************************************************************************)
(* The state of a PCMonitor and of its page.                                *)
(***************************************************************************)
VARIABLES
    ws,             \* this.ws: the slot of the WebSocket made last
    sockets,        \* each slot's WebSocket: "connecting", "open", "closed"
    timers,         \* the pending setTimeout calls, oldest first
    dotConnected,   \* whether #status-dot has the class "connected"
    text,           \* the textContent of every element the code writes
    html,           \* the children of every container the code rebuilds
    style,          \* what the code set on the gauges and the bar
    gaugeClass,     \* each gauge's size class
    charts,         \* this.charts
    totalMemoryGB,  \* this.totalMemoryGB
    updates,        \* chart updates made so far (numbers the pushes)
    console,        \* the last console.error message ("" when none)
    uncaught,       \* whether an exception has left a handler
    delivered,      \* messages delivered so far
    tornDown,       \* whether the page has let go of the monitor
    lastEvent       \* the handler that ran last, and what it was given

view == <<text, html, style, gaugeClass, charts, totalMemoryGB, updates>>
vars == <<ws, sockets, timers, dotConnected, text, html, style, gaugeClass,
          charts, totalMemoryGB, updates, console, uncaught, delivered,
          tornDown, lastEvent>>

\* A closed slot holds no WebSocket that can still fire an event.
Slots == 1..MaxConn
Live == {s \in Slots : sockets[s] # "closed"}

\* The size classes the markup gives the gauges: one of each size at least.
GaugeClassChoices ==
    {[g \in GaugeIds |-> IF g = "memory-gauge" THEN "large-gauge"
                         ELSE "mini-gauge"]}

View ==
    [text |-> text, html |-> html, style |-> style, gaugeClass |-> gaugeClass,
     charts |-> charts, totalMemoryGB |-> totalMemoryGB, updates |-> updates]

\* The variables of the view after a handler left it as v.
SetView(v) ==
    /\ text' = v.text
    /\ html' = v.html
    /\ style' = v.style
    /\ gaugeClass' = v.gaugeClass
    /\ charts' = v.charts
    /\ totalMemoryGB' = v.totalMemoryGB
    /\ updates' = v.updates

\* connect(): a new WebSocket, assigned to this.ws, with the four handlers.
\* Nothing is closed and no timer is cleared.
connect ==
    LET free == {s \in Slots : sockets[s] = "closed"}
        new == CHOOSE s \in free : \A t \in free : s <= t
    IN  /\ sockets' = [sockets EXCEPT ![new] = "connecting"]
        /\ ws' = new

\* updateConnectionStatus(connected)
updateConnectionStatus(connected) ==
    /\ dotConnected' = connected
    /\ text' = [text EXCEPT !["status-text"] =
                    IF connected THEN "Connected" ELSE "Disconnected"]

\* new PCMonitor(): the fields, setupCharts() and the first connect().
Init ==
    /\ sockets = [s \in Slots |-> IF s = 1 THEN "connecting" ELSE "closed"]
    /\ ws = 1
    /\ timers = <<>>
    /\ dotConnected \in BOOLEAN
    /\ \E classes \in GaugeClassChoices :
          /\ text = InitialView(classes).text
          /\ html = InitialView(classes).html
          /\ style = InitialView(classes).style
          /\ gaugeClass = InitialView(classes).gaugeClass
          /\ charts = InitialView(classes).charts
          /\ totalMemoryGB = InitialView(classes).totalMemoryGB
          /\ updates = InitialView(classes).updates
    /\ console = ""
    /\ uncaught = FALSE
    /\ delivered = 0
    /\ tornDown = FALSE
    /\ lastEvent = [name |-> "construct"]

\* connect() called on the monitor by other code of the page (window.monitor),
\* while the page holds the monitor.
ConnectCall ==
    /\ ~tornDown
    /\ Cardinality(Live) + Len(timers) < MaxConn
    /\ connect
    /\ lastEvent' = [name |-> "connect"]
    /\ UNCHANGED <<timers, dotConnected, text, html, style, gaugeClass, charts,
                   totalMemoryGB, updates, console, uncaught, delivered>>
    /\ UNCHANGED tornDown

\* An onopen that does not report the status.
OnOpenSilent(s) ==
    /\ sockets[s] = "connecting"
    /\ sockets' = [sockets EXCEPT ![s] = "open"]
    /\ lastEvent' = [name |-> "open"]
    /\ UNCHANGED <<ws, timers, dotConnected, text, html, style, gaugeClass,
                   charts, totalMemoryGB, updates, console, uncaught, delivered>>
    /\ UNCHANGED tornDown

\* ws.onopen
OnOpen(s) ==
    /\ sockets[s] = "connecting"
    /\ sockets' = [sockets EXCEPT ![s] = "open"]
    /\ updateConnectionStatus(TRUE)
    /\ lastEvent' = [name |-> "open"]
    /\ UNCHANGED <<ws, timers, html, style, gaugeClass, charts, totalMemoryGB,
                   updates, console, uncaught, delivered>>
    /\ UNCHANGED tornDown

\* An onclose that retries only a connection that had opened.
OnCloseRetryOpenedOnly(s) ==
    /\ sockets[s] # "closed"
    /\ sockets' = [sockets EXCEPT ![s] = "closed"]
    /\ updateConnectionStatus(FALSE)
    /\ timers' = IF sockets[s] = "open"
                 THEN Append(timers, [delay |-> ReconnectDelay, waited |-> 0])
                 ELSE timers
    /\ lastEvent' = [name |-> "close"]
    /\ UNCHANGED <<ws, html, style, gaugeClass, charts, totalMemoryGB, updates,
                   console, uncaught, delivered>>
    /\ UNCHANGED tornDown

\* ws.onclose: the status, and setTimeout(() => this.connect(), 2000).
OnClose(s) ==
    /\ sockets[s] # "closed"
    /\ sockets' = [sockets EXCEPT ![s] = "closed"]
    /\ updateConnectionStatus(FALSE)
    /\ timers' = Append(timers, [delay |-> ReconnectDelay, waited |-> 0])
    /\ lastEvent' = [name |-> "close"]
    /\ UNCHANGED <<ws, html, style, gaugeClass, charts, totalMemoryGB, updates,
                   console, uncaught, delivered>>
    /\ UNCHANGED tornDown

\* An onerror that also schedules a reconnect.
OnErrorReconnects(s) ==
    /\ sockets[s] # "closed"
    /\ console' = "WebSocket error:"
    /\ timers' = Append(timers, [delay |-> ReconnectDelay, waited |-> 0])
    /\ lastEvent' = [name |-> "error"]
    /\ UNCHANGED <<ws, sockets, dotConnected, text, html, style, gaugeClass,
                   charts, totalMemoryGB, updates, uncaught, delivered>>
    /\ UNCHANGED tornDown

\* ws.onerror: console.error only.
OnError(s) ==
    /\ sockets[s] # "closed"
    /\ console' = "WebSocket error:"
    /\ lastEvent' = [name |-> "error"]
    /\ UNCHANGED <<ws, sockets, timers, dotConnected, text, html, style,
                   gaugeClass, charts, totalMemoryGB, updates, uncaught,
                   delivered>>
    /\ UNCHANGED tornDown

\* The state after a message handler that ended as r.
Handled(r) ==
    /\ SetView(r.vm)
    /\ console' = IF r.logged = "" THEN console ELSE r.logged
    /\ uncaught' = (uncaught \/ r.uncaught)

\* ws.onmessage with event.data = message.
OnMessage(s, message) ==
    /\ sockets[s] = "open"
    /\ delivered < MaxFrames
    /\ delivered' = delivered + 1
    /\ Handled(onmessage(View, message))
    /\ lastEvent' = [name |-> "message",
                     wellFormed |-> JSONParse(message).ok,
                     data |-> JSONParse(message).val,
                     logged |-> onmessage(View, message).logged]
    /\ UNCHANGED <<ws, sockets, timers, dotConnected>>
    /\ UNCHANGED tornDown

\* The timeout's callback, () => this.connect(), which runs once the delay
\* has passed; timers of one delay run in the order they were set.
TimerFire ==
    /\ timers # <<>>
    /\ Head(timers).waited >= Head(timers).delay
    /\ timers' = Tail(timers)
    /\ connect
    /\ lastEvent' = [name |-> "reconnect", waited |-> Head(timers).waited]
    /\ UNCHANGED <<dotConnected, text, html, style, gaugeClass, charts,
                   totalMemoryGB, updates, console, uncaught, delivered>>
    /\ UNCHANGED tornDown

\* Time passes: every pending timer has waited TickMs longer (counted up to
\* its delay).
Tick ==
    /\ timers' = [i \in 1..Len(timers) |->
                    [timers[i] EXCEPT !.waited = Min(@ + TickMs, timers[i].delay)]]
    /\ UNCHANGED <<ws, sockets, dotConnected, text, html, style, gaugeClass,
                   charts, totalMemoryGB, updates, console, uncaught, delivered,
                   lastEvent>>
    /\ UNCHANGED tornDown

\* The page lets go of the monitor (it drops window.monitor, or is about to
\* be left).  PCMonitor has no method for this and keeps no handle of its
\* timeout, so nothing is closed or cleared: the handlers and the pending
\* timeouts stay as they are.
Teardown ==
    /\ ~tornDown
    /\ tornDown' = TRUE
    /\ UNCHANGED <<ws, sockets, timers, dotConnected, text, html, style,
                   gaugeClass, charts, totalMemoryGB, updates, console, uncaught,
                   delivered, lastEvent>>

\* The monitor on its page: every event of every WebSocket, the timers,
\* calls of connect() and the teardown; the messages are the few of
\* SampleMessages.
Next ==
    \/ ConnectCall
    \/ Teardown
    \/ \E s \in Slots : OnOpen(s)
    \/ \E s \in Slots : OnClose(s)
    \/ \E s \in Slots : OnError(s)
    \/ \E s \in Slots : \E m \in SampleMessages : OnMessage(s, m)
    \/ TimerFire
    \/ Tick

Spec == Init /\ [][Next]_vars

\* The event loop runs a due timer's callback, and time does pass.
FairSpec == Spec /\ WF_vars(TimerFire) /\ WF_vars(Tick)

\* The messages a monitor left to itself receives.
EventMessages ==
    SampleMessages \cup {JSONStringify(FullFrame), JSONStringify(UnavailableFrame)}

\* The monitor left to itself after new PCMonitor(): the events of its
\* WebSockets and its timers, with no call of connect() from the page.
EventNext ==
    \/ \E s \in Slots : OnOpen(s)
    \/ \E s \in Slots : OnClose(s)
    \/ \E s \in Slots : OnError(s)
    \/ \E s \in Slots : \E m \in EventMessages : OnMessage(s, m)
    \/ TimerFire
    \/ Tick

EventSpec == Init /\ [][EventNext]_vars

\* One connection that opens and receives: every message of the model.
FrameNext ==
    \/ \E s \in Slots : OnOpen(s)
    \/ \E s \in Slots : \E m \in Messages : OnMessage(s, m)

FrameSpec == Init /\ [][FrameNext]_vars

(***************************************************************************)
(* The claims.                                                              *)
(***************************************************************************)
\* A step that delivers a message.
MessageStep == lastEvent'.name = "message" /\ delivered' = delivered + 1

\* C1: in every reachable state at most one WebSocket that is not closed
\* exists and at most one reconnect timer is pending, whatever the
\* interleaving of connect() calls, socket events and timer firings.
C1_OneConnectionOneTimer == Cardinality(Live) <= 1 /\ Len(timers) <= 1

\* C2: a close schedules exactly one reconnect, which is then the only pending
\* timer (closes before the timer fires add none), and the reconnect's
\* connect() runs no sooner than 2000 ms after the close.
C2_OneReconnectPerClose ==
    [][/\ (lastEvent'.name = "close" /\ sockets' # sockets)
            => timers' = <<[delay |-> 2000, waited |-> 0]>>
       /\ lastEvent'.name = "reconnect" => lastEvent'.waited >= 2000]_vars

\* C3: the lifecycle has no terminal state: every close is eventually
\* followed by the reconnect's connect(), and the monitor is never without
\* both a live WebSocket and a pending timer.
C3_CloseLeadsToReconnect ==
    /\ [](Live = {} => timers # <<>>)
    /\ (lastEvent.name = "close") ~> (lastEvent.name = "reconnect")

\* C3's case: a reconnect has run after a close that followed a failed
\* attempt (the status still says Disconnected), and connects again.
C3_Witness ==
    /\ lastEvent.name = "reconnect"
    /\ sockets[ws] = "connecting"
    /\ text["status-text"] = "Disconnected"

\* C4: every series starts as 60 nulls and has length 60 after every push;
\* a push puts the new value at the tail and drops exactly the head.
C4_SeriesLength ==
    /\ \A c \in ChartIds : \A i \in 1..Len(charts[c].data) :
          charts[c].data[i] = NullSeries
    /\ [][\A c \in ChartIds : \A i \in 1..Len(charts[c].data) :
            /\ Len(charts'[c].data[i]) = 60
            /\ \/ charts'[c].data[i] = charts[c].data[i]
               \/ SubSeq(charts'[c].data[i], 1, 59) = Tail(charts[c].data[i])]_vars

\* C4's case: a series that was pushed twice, the first value now at 59.
C4_Witness ==
    /\ Len(charts["cpu-chart"].data[1]) = 60
    /\ charts["cpu-chart"].data[1][59] = Num(37)
    /\ charts["cpu-chart"].data[1][60] = Num(42)

\* C5: the two series of a dual chart have equal length, the entries at one
\* index were pushed by the same call, and what the chart last drew is that
\* aligned pair of series.
C5_DualAligned ==
    \A c \in DualCharts :
        /\ Len(charts[c].data[1]) = Len(charts[c].data[2])
        /\ charts[c].calls[1] = charts[c].calls[2]
        /\ charts[c].drawn = charts[c].data

\* C5's case: two paired pushes into the network series.
C5_Witness ==
    /\ charts["network-chart"].calls[1][59] > 0
    /\ charts["network-chart"].calls[2][60] > charts["network-chart"].calls[1][59]
    /\ charts["network-chart"].data[1][60] # charts["network-chart"].data[2][60]

\* C6: a message that is not well-formed JSON leaves the handler without an
\* exception, changes nothing of the view and nothing of the connection.
C6_MalformedDropped ==
    [][(MessageStep /\ ~lastEvent'.wellFormed)
          => /\ UNCHANGED <<view, dotConnected, ws, sockets, timers>>
             /\ ~uncaught']_vars

\* C6's case: a malformed message arrived on the open socket after a frame
\* had been shown.
C6_Witness ==
    /\ lastEvent.name = "message"
    /\ ~lastEvent.wellFormed
    /\ console = "Failed to parse message:"
    /\ text["cpu-usage"] # Markup
    /\ sockets[ws] = "open"

\* What the page shows of one category: its texts, lists, gauges and bar,
\* its chart, and for memory totalMemoryGB.
CategoryText ==
    [cpu |-> CpuText, gpu |-> GpuText, memory |-> MemoryText,
     network |-> NetworkText, ping |-> PingText, disk |-> DiskText,
     fans |-> {}, processes |-> {}, system |-> SystemText]
CategoryLists ==
    [cpu |-> {"cpu-core-bars"}, gpu |-> {}, memory |-> {}, network |-> {},
     ping |-> {}, disk |-> {}, fans |-> {"fans-list"},
     processes |-> {"process-list"}, system |-> {"sys-drives"}]
CategoryStyle ==
    [cpu |-> {}, gpu |-> {"gpu-usage-gauge", "gpu-temp-gauge", "gpu-vram-bar"},
     memory |-> {"memory-gauge"}, network |-> {}, ping |-> {}, disk |-> {},
     fans |-> {}, processes |-> {}, system |-> {}]
CategoryCharts ==
    [cpu |-> {"cpu-chart"}, gpu |-> {"gpu-chart"}, memory |-> {"memory-chart"},
     network |-> {"network-chart"}, ping |-> {}, disk |-> {"disk-chart"},
     fans |-> {}, processes |-> {}, system |-> {}]
Slice(c) ==
    [text |-> [id \in CategoryText[c] |-> text[id]],
     html |-> [id \in CategoryLists[c] |-> html[id]],
     style |-> [id \in CategoryStyle[c] |-> style[id]],
     charts |-> [id \in CategoryCharts[c] |-> charts[id]],
     total |-> IF c = "memory" THEN totalMemoryGB ELSE Null]

\* C7: reducing a frame leaves the slice of every category the frame does not
\* hold exactly as it was.
C7_AbsentCategoryUntouched ==
    [][MessageStep
          => \A c \in Categories :
                Get(lastEvent'.data, c) = Undefined => Slice(c)' = Slice(c)]_vars

\* C7's case: the frame { cpu: { usage: 42 } } after a frame of every
\* category: the CPU panel and series changed, the other panels are the full
\* frame's.
C7_Witness ==
    /\ lastEvent.name = "message"
    /\ lastEvent.data = Obj([cpu |-> Obj([usage |-> Num(42)])])
    /\ text["cpu-usage"] = "42%"
    /\ charts["cpu-chart"].data[1][60] = Num(42)
    /\ text["gpu-usage"] = "73%"
    /\ text["sys-uptime"] = "3d 4h"
    /\ Len(html["process-list"]) = 2
    /\ totalMemoryGB = Num(16)

\* A frame: a well-formed message that is an object.
IsFrame(e) == e.name = "message" /\ e.wellFormed /\ TypeOf(e.data) = "object"

\* C8: reducing a well-formed frame whose leaf fields are absent or null in
\* any combination raises no error, so that every category of the frame is
\* applied.
C8_NoErrorOnMissingLeaf == IsFrame(lastEvent) => lastEvent.logged = ""

\* The names a container lists, in order.
ShownNames(id) == [i \in 1..Len(html[id]) |-> html[id][i].name]
NamesOf(entries) == [i \in 1..Len(entries) |-> ToStr(Get(entries[i], "name"))]
ModelsOf(drives) ==
    [i \in 1..Len(drives) |-> ToStr(Get(drives[i], "model"))]

\* C9: after a frame that carries processes, fans or (available) system was
\* reduced without an error, the list shown is that frame's list and nothing
\* of an earlier frame: its entries in order, none when the frame's list is
\* empty (for fans the no-data notice).
C9_ListsReplaced ==
    (IsFrame(lastEvent) /\ lastEvent.logged = "") =>
        LET data == lastEvent.data
            fans == Elems(Get(Get(data, "fans"), "fans"))
            system == Get(data, "system")
        IN  /\ Truthy(Get(data, "processes"))
                => ShownNames("process-list")
                     = NamesOf(FilterProcesses(Elems(Get(data, "processes"))))
            /\ Truthy(Get(data, "fans"))
                => IF fans = <<>> THEN html["fans-list"] = NoFans
                   ELSE ShownNames("fans-list") = NamesOf(fans)
            /\ (Truthy(system) /\ Truthy(Get(system, "available")))
                => [i \in 1..Len(html["sys-drives"]) |->
                        html["sys-drives"][i].title]
                     = ModelsOf(Elems(Get(system, "drives")))

IsNumber(v) == TypeOf(v) = "number"

\* C10: totalMemoryGB starts as 0; a memory frame that carries a total sets
\* it to that total, and any other message leaves it as it is.
C10_LastKnownTotal ==
    /\ totalMemoryGB = Num(0)
    /\ [][MessageStep
            => totalMemoryGB' =
                  IF IsNumber(Get(Get(lastEvent'.data, "memory"), "total"))
                  THEN Get(Get(lastEvent'.data, "memory"), "total")
                  ELSE totalMemoryGB]_vars

\* The conversion rule for a process's memory: memoryMB is
\* memory_percent / 100 * totalMemoryGB * 1024, written in GB with one decimal
\* from 1024 MB on and in whole MB below.
ExpectedMemory(percent, totalGB) ==
    IF percent * totalGB * 1024 >= 1024 * 100
    THEN ToFixed(percent * totalGB * 1024, 100 * 1024, 1) \o " GB"
    ELSE ToFixed(percent * totalGB * 1024, 100, 0) \o " MB"

NotIdle(names) == {k \in 1..Len(names) : names[k] # IdleProcess}
Rank(names, k) == Cardinality({j \in NotIdle(names) : j <= k})

\* C12: after a frame that carries processes, the list shown is the frame's
\* list without the idle process, cut to its first 8 entries, in the
\* producer's order.
C12_FilterAndCap ==
    (IsFrame(lastEvent) /\ Truthy(Get(lastEvent.data, "processes"))) =>
        LET names == NamesOf(Elems(Get(lastEvent.data, "processes")))
            shown == ShownNames("process-list")
        IN  /\ Len(shown) = Min(8, Cardinality(NotIdle(names)))
            /\ \A k \in NotIdle(names) :
                    Rank(names, k) <= 8 => shown[Rank(names, k)] = names[k]

\* The stroke offset of a gauge of the given radius for a value: the
\* circumference times (1 - percentage), the percentage being value / 100
\* clamped to [0, 1].
ClampedOffset(radius, value) ==
    LET clamped == IF value < 0 THEN 0 ELSE Min(value, 100)
    IN  (Circumference(radius) * (100 - clamped)) \div 100
RadiusOf(g) == IF gaugeClass[g] = "large-gauge" THEN 42 ELSE 20

\* C13: whatever value a gauge is given, negative or above the maximum, its
\* stroke offset lies between 0 and the circumference of its radius (42 or
\* 20), and is the circumference times (1 - the clamped percentage).
C13_GaugeOffsetInRange ==
    /\ \A g \in GaugeIds : style[g] # NoStyle =>
            /\ style[g].strokeDasharray = Circumference(RadiusOf(g))
            /\ style[g].strokeDashoffset >= 0
            /\ style[g].strokeDashoffset <= Circumference(RadiusOf(g))
    /\ (IsFrame(lastEvent) /\ Truthy(Get(lastEvent.data, "memory"))) =>
            style["memory-gauge"].strokeDashoffset =
                ClampedOffset(RadiusOf("memory-gauge"),
                    NumOr0(Get(Get(lastEvent.data, "memory"), "percent"))[2])
    /\ (IsFrame(lastEvent) /\ Truthy(Get(lastEvent.data, "gpu"))
            /\ Truthy(Get(Get(lastEvent.data, "gpu"), "available"))) =>
            /\ style["gpu-usage-gauge"].strokeDashoffset =
                    ClampedOffset(RadiusOf("gpu-usage-gauge"),
                        NumOr0(Get(Get(lastEvent.data, "gpu"), "usage"))[2])
            /\ style["gpu-temp-gauge"].strokeDashoffset =
                    ClampedOffset(RadiusOf("gpu-temp-gauge"),
                        NumOr0(Get(Get(lastEvent.data, "gpu"), "temperature"))[2])

\* C14: once the monitor has been torn down no connection is made any more:
\* a reconnect timer that was pending at the teardown does not run connect().
C14_NoConnectAfterTeardown ==
    [][tornDown => \A s \in Slots :
            sockets'[s] = "connecting" => sockets[s] = "connecting"]_vars

\* A step that is a call of connect() from the page.
ConnectStep ==
    lastEvent'.name = "connect" /\ (lastEvent.name # "connect" \/ sockets' # sockets)

\* C15: connect() called while this.ws is connecting or open does nothing: no
\* new WebSocket, the same this.ws, the same status; called while this.ws is
\* closed it makes one WebSocket, which is connecting and becomes this.ws.
C15_ConnectWhileLiveIsNoOp ==
    [][ConnectStep =>
          IF sockets[ws] # "closed"
          THEN UNCHANGED <<ws, sockets, timers, dotConnected, text>>
          ELSE /\ sockets[ws'] = "closed" /\ sockets'[ws'] = "connecting"
               /\ \A s \in Slots \ {ws'} : sockets'[s] = sockets[s]]_vars

\* A step that is an error event (a second error event in a row changes
\* nothing at all).
ErrorStep == lastEvent'.name = "error" /\ lastEvent.name # "error"

\* C16: an error event writes to the log and changes nothing else: not the
\* sockets, the status or the timers; and a reconnect timer is only ever set
\* by a close event.
C16_ErrorOnlyLogs ==
    [][/\ ErrorStep
            => /\ console' = "WebSocket error:"
               /\ UNCHANGED <<ws, sockets, timers, dotConnected, view>>
       /\ Len(timers') > Len(timers)
            => (lastEvent'.name = "close" /\ sockets' # sockets)]_vars

\* C16's case: an error event on the open socket, which stays open and
\* Connected with no reconnect pending.
C16_Witness ==
    /\ lastEvent.name = "error"
    /\ console = "WebSocket error:"
    /\ sockets[ws] = "open"
    /\ text["status-text"] = "Connected"
    /\ timers = <<>>

\* A category that is in the frame, but not reported as available.
Unavailable(data, c) ==
    Get(data, c) # Undefined /\ ~Truthy(Get(Get(data, c), "available"))

\* C17: a frame whose gpu is not available (the flag false or absent) leaves
\* every GPU text, gauge, bar and the GPU series as they were, and a frame
\* whose system is not available leaves the system texts and the drive list
\* as they were.
C17_UnavailableRetained ==
    [][MessageStep
          => /\ Unavailable(lastEvent'.data, "gpu")
                  => Slice("gpu")' = Slice("gpu")
             /\ Unavailable(lastEvent'.data, "system")
                  => Slice("system")' = Slice("system")]_vars

\* C17's case: after the frame of every category came a frame whose gpu and
\* system are not available: the page shows the first frame's GPU and system.
C17_Witness ==
    /\ lastEvent.name = "message"
    /\ lastEvent.data = UnavailableFrame
    /\ text["gpu-usage"] = "73%"
    /\ charts["gpu-chart"].data[1][60] = Num(73)
    /\ style["gpu-usage-gauge"] # NoStyle
    /\ text["sys-uptime"] = "3d 4h"
    /\ text["sys-mb-model"] = "B550"
    /\ Len(html["sys-drives"]) = 2

\* What the speed of a fan should show: its percent when it has one, else
\* its RPM when it has one, else the placeholder.
ExpectedSpeed(fan) ==
    IF IsNumber(Get(fan, "percent"))
    THEN ToString(Get(fan, "percent")[2]) \o "%"
    ELSE IF IsNumber(Get(fan, "rpm"))
    THEN ToString(Get(fan, "rpm")[2]) \o " RPM"
    ELSE "--"

\* C18: after a frame with a fans category, an empty or missing fan list shows
\* the no-data notice; otherwise every fan shows first its percent, or else
\* its RPM, or else "--", whether percent and rpm are numbers, null or
\* absent, and nothing shown renders a missing value.
C18_FanSpeedFallback ==
    (IsFrame(lastEvent) /\ Truthy(Get(lastEvent.data, "fans"))) =>
        LET fans == Elems(Get(Get(lastEvent.data, "fans"), "fans"))
            shown == html["fans-list"]
        IN  IF fans = <<>> THEN shown = NoFans
            ELSE /\ Len(shown) = Len(fans)
                 /\ \A i \in 1..Len(fans) :
                        /\ shown[i].speed[1].text = ExpectedSpeed(fans[i])
                        /\ \A k \in 1..Len(shown[i].speed) :
                              shown[i].speed[k].text
                                 \notin {"undefined%", "undefined RPM",
                                         "null%", "null RPM"}

\* The sample of a reported value: the value, 0 when it is missing or null.
Sample(v) == IF IsNumber(v) THEN v ELSE Num(0)
\* A series advanced by one sample: the head left, the sample is the tail.
Advanced(series, v) == Append(Tail(series), Sample(v))
\* A rate as the page shows it.
RateText(v) == ToFixed(Sample(v)[2], 1, 2) \o " MB/s"

\* The series of chart c after a message with the given data: advanced by
\* the one sample of its category if the frame has the category (for gpu: and
\* reports it as available), else as they were.
SeriesAfter(c, data) ==
    LET cat == Get(data, CHOOSE k \in Categories : c \in CategoryCharts[k])
        fields == ("cpu-chart" :> <<"usage">>) @@ ("gpu-chart" :> <<"usage">>)
                    @@ ("memory-chart" :> <<"percent">>)
                    @@ ("network-chart" :> <<"download_rate", "upload_rate">>)
                    @@ ("disk-chart" :> <<"read_rate", "write_rate">>)
        pushed == cat # Undefined
                    /\ (c = "gpu-chart" => Truthy(Get(cat, "available")))
    IN  IF pushed
        THEN [i \in 1..Len(charts[c].data) |->
                Advanced(charts[c].data[i], Get(cat, fields[c][i]))]
        ELSE charts[c].data

\* C19: one message advances every series by one sample at most: by exactly
\* the one sample of its category when the frame has the category (gpu: and
\* it is available), a missing or null value as 0, and not at all otherwise;
\* a missing network or disk rate is shown as 0 as well.
C19_OneSamplePerFrame ==
    [][MessageStep
          => /\ \A c \in ChartIds : charts'[c].data = SeriesAfter(c, lastEvent'.data)
             /\ Get(lastEvent'.data, "network") # Undefined
                  => /\ text'["net-down"] = RateText(
                            Get(Get(lastEvent'.data, "network"), "download_rate"))
                     /\ text'["net-up"] = RateText(
                            Get(Get(lastEvent'.data, "network"), "upload_rate"))
             /\ Get(lastEvent'.data, "disk") # Undefined
                  => /\ text'["disk-read"] = RateText(
                            Get(Get(lastEvent'.data, "disk"), "read_rate"))
                     /\ text'["disk-write"] = RateText(
                            Get(Get(lastEvent'.data, "disk"), "write_rate"))]_vars

\* C19's case: after the frame of every category a network frame without an
\* upload rate: every series has the first frame's sample, the network
\* series one more, 0 for the missing rate.
C19_Witness ==
    /\ lastEvent.name = "message"
    /\ lastEvent.data = Obj([network |-> Obj([download_rate |-> Num(7)])])
    /\ charts["network-chart"].data[1][59] = Num(12)
    /\ charts["network-chart"].data[1][60] = Num(7)
    /\ charts["network-chart"].data[2][59] = Num(3)
    /\ charts["network-chart"].data[2][60] = Num(0)
    /\ text["net-up"] = "0.00 MB/s"
    /\ charts["cpu-chart"].data[1][59] = Null
    /\ charts["cpu-chart"].data[1][60] = Num(37)

\* C20: with no connect() but the constructor's and the reconnects', the
\* status shown agrees with the connection once it has been set: it says
\* Connected (and the dot is on) exactly while the WebSocket made last is
\* open; a close sets it to Disconnected, and it is Disconnected when the
\* reconnect's connect() begins.
C20_StatusAgrees ==
    /\ [](text["status-text"] # Markup
            => /\ (text["status-text"] = "Connected") <=> (sockets[ws] = "open")
               /\ dotConnected <=> (text["status-text"] = "Connected")
               /\ text["status-text"] \in {"Connected", "Disconnected"})
    /\ [][/\ (lastEvent'.name = "close" /\ sockets' # sockets)
                => text'["status-text"] = "Disconnected"
          /\ (lastEvent'.name = "reconnect" /\ sockets' # sockets)
                => text["status-text"] = "Disconnected"]_vars

\* C20's case: the second connection has opened, after the first one
\* received a message and closed: the status says Connected again.
C20_Witness ==
    /\ lastEvent.name = "open"
    /\ delivered >= 1
    /\ sockets[ws] = "open"
    /\ text["status-text"] = "Connected"
    /\ dotConnected
    /\ timers = <<>>

=============================================================================
